---- MODULE Spec2Model ----
(***************************************************************************)
(* A model of the Bish front end (src/src/Parser.cpp): the Tokenizer and   *)
(* the recursive-descent Parser with its scope stack and module stack.     *)
(*                                                                         *)
(* Texts are sequences of one-character strings.  The index idx is         *)
(* 0-based as in the code, so the character at idx is text[idx + 1].       *)
(* The parser's recursion is an explicit stack of frames; every parser     *)
(* function is a few actions, one per stretch of code between two calls    *)
(* of other parser functions.                                              *)
(***************************************************************************)
EXTENDS Integers, Sequences, FiniteSets, TLC

VARIABLES
    input,               \* the argument of parse_string
    status,              \* "idle" | "running" | "done" | "error" | "crash"
    text,                \* Tokenizer::text  (the preprocessed string)
    idx,                 \* Tokenizer::idx
    lineno,              \* Tokenizer::lineno
    frames,              \* the call stack of the parser (last = innermost)
    ret,                 \* the value returned by the call that just ended
    symbol_table_stack,  \* Parser::symbol_table_stack (last = top)
    module_stack,        \* Parser::module_stack (last = top)
    heap,                \* the Variables allocated so far; identity = index
    result,              \* the Module returned by parse_string
    err,                 \* the diagnostic of abort()
    occ                  \* history: the Variable each name occurrence resolved to

vars == <<input, status, text, idx, lineno, frames, ret, symbol_table_stack,
          module_stack, heap, result, err, occ>>

(***************************************************************************)
(* Characters                                                              *)
(***************************************************************************)
NUL == "NUL"   \* the terminator read at text[text.length()]
NL == "\n"
TAB == "\t"
SP == " "
QUOTE == "\""

Digits == {"0", "1", "2", "3", "4", "5", "6", "7", "8", "9"}

Letters == {"a", "b", "c", "d", "e", "f", "g", "h", "i", "j", "k", "l", "m",
            "n", "o", "p", "q", "r", "s", "t", "u", "v", "w", "x", "y", "z",
            "A", "B", "C", "D", "E", "F", "G", "H", "I", "J", "K", "L", "M",
            "N", "O", "P", "Q", "R", "S", "T", "U", "V", "W", "X", "Y", "Z"}

is_newline(c) == c = NL

is_whitespace(c) == c = SP \/ c = TAB \/ is_newline(c)

is_digit(c) == c \in Digits

is_alphanumeric(c) == is_digit(c) \/ c \in Letters

(***************************************************************************)
(* Tokens                                                                  *)
(***************************************************************************)
Tok(ty, val) == [type |-> ty, value |-> val]

SingleCharType(c) ==
    CASE c = "(" -> "LParen"
      [] c = ")" -> "RParen"
      [] c = "{" -> "LBrace"
      [] c = "}" -> "RBrace"
      [] c = "@" -> "At"
      [] c = "$" -> "Dollar"
      [] c = "#" -> "Sharp"
      [] c = ";" -> "Semicolon"
      [] c = "," -> "Comma"
      [] c = "+" -> "Plus"
      [] c = "-" -> "Minus"
      [] c = "*" -> "Star"
      [] c = "/" -> "Slash"
      [] c = QUOTE -> "Quote"
      [] OTHER -> "None"

(***************************************************************************)
(* Tokenizer                                                               *)
(***************************************************************************)
\* text[i]: the character at 0-based index i; the terminator at the length.
CharAt(i) == IF i < Len(text) THEN text[i + 1] ELSE NUL

\* text.substr(start, len), clipped at the end of the text as substr does.
substr(start, len) ==
    LET last == IF start + len > Len(text) THEN Len(text) ELSE start + len
    IN  SubSeq(text, start + 1, last)

eos(i) == i >= Len(text)

RECURSIVE skip_whitespace(_, _)
skip_whitespace(i, ln) ==
    IF ~eos(i) /\ is_whitespace(CharAt(i))
    THEN skip_whitespace(i + 1, IF is_newline(CharAt(i)) THEN ln + 1 ELSE ln)
    ELSE [idx |-> i, lineno |-> ln]

\* The end of the run of digits that begins at index j.
RECURSIVE DigitsEnd(_)
DigitsEnd(j) == IF is_digit(CharAt(j)) THEN DigitsEnd(j + 1) ELSE j

\* The end of the run of alphanumeric characters that begins at index j.
RECURSIVE AlnumEnd(_)
AlnumEnd(j) == IF is_alphanumeric(CharAt(j)) THEN AlnumEnd(j + 1) ELSE j

read_number(i) ==
    LET e1 == DigitsEnd(i)
        fractional == CharAt(e1) = "."
        newidx == IF fractional THEN DigitsEnd(e1 + 1) ELSE e1
        snum == SubSeq(text, i + 1, newidx)
    IN  [tok |-> Tok(IF fractional THEN "Fractional" ELSE "Int", snum),
         nidx |-> newidx]

get_multichar_token(s) ==
    IF s = <<"i", "f">> THEN Tok("If", s)
    ELSE IF s = <<"d", "e", "f">> THEN Tok("Def", s)
    ELSE Tok("Symbol", s)

read_symbol(i) ==
    LET newidx == AlnumEnd(i)
    IN  [tok |-> get_multichar_token(SubSeq(text, i + 1, newidx)),
         nidx |-> newidx]

\* The next token seen from tokenizer state tz = [idx, lineno]: the token,
\* the index after it, and the tokenizer state skip_whitespace leaves.
get_token(tz) ==
    LET sw == skip_whitespace(tz.idx, tz.lineno)
        i == sw.idx
        c == CharAt(i)
        r == IF eos(i) THEN [tok |-> Tok("EOS", <<>>), nidx |-> i]
             ELSE IF SingleCharType(c) # "None"
                  THEN [tok |-> Tok(SingleCharType(c), <<c>>), nidx |-> i + 1]
             ELSE IF c = "="
                  THEN IF CharAt(i + 1) = "="
                       THEN [tok |-> Tok("DoubleEquals", <<"=", "=">>), nidx |-> i + 2]
                       ELSE [tok |-> Tok("Equals", <<"=">>), nidx |-> i + 1]
             ELSE IF is_digit(c) THEN read_number(i)
             ELSE read_symbol(i)
    IN  [tok |-> r.tok, nidx |-> r.nidx, at |-> sw]

\* peek(): the token; the whitespace it skipped stays skipped.
peek(tz) == get_token(tz).tok
AfterPeek(tz) == get_token(tz).at

\* next(): the tokenizer state after skipping the token at the head.
next(tz) ==
    LET g == get_token(tz)
    IN  [idx |-> g.nidx, lineno |-> g.at.lineno]

TZ == [idx |-> idx, lineno |-> lineno]

(***************************************************************************)
(* IR nodes.  Every node is a record with a kind; a Variable's identity is *)
(* its index in the heap.                                                  *)
(***************************************************************************)
Null == [kind |-> "Null"]
Variable(id, name) == [kind |-> "Variable", id |-> id, name |-> name]
Integer(v) == [kind |-> "Integer", value |-> v]
Fractional(v) == [kind |-> "Fractional", value |-> v]
String(v) == [kind |-> "String", value |-> v]
BinOp(op, a, b) == [kind |-> "BinOp", op |-> op, a |-> a, b |-> b]
UnaryOp(op, a) == [kind |-> "UnaryOp", op |-> op, a |-> a]
Comparison(a, b) == [kind |-> "Comparison", a |-> a, b |-> b]
FunctionCall(name, args) == [kind |-> "FunctionCall", name |-> name, args |-> args]
Assignment(v, e) == [kind |-> "Assignment", variable |-> v, value |-> e]
IfStatement(c, b) == [kind |-> "IfStatement", cond |-> c, body |-> b]
ExternCall(body) == [kind |-> "ExternCall", body |-> body]
Block(nodes) == [kind |-> "Block", nodes |-> nodes]
Function(name, args, body) ==
    [kind |-> "Function", name |-> name, args |-> args, body |-> body]
Module(main, functions) == [kind |-> "Module", main |-> main, functions |-> functions]

\* The fragments of an InterpolatedString.
StrItem(s) == [kind |-> "str", str |-> s]
VarItem(v) == [kind |-> "var", v |-> v]

bish_main == <<"b", "i", "s", "h", "_", "m", "a", "i", "n">>

get_binop_operator(t) ==
    CASE t.type = "Plus" -> "Add"
      [] t.type = "Minus" -> "Sub"
      [] t.type = "Star" -> "Mul"
      [] t.type = "Slash" -> "Div"

get_primitive_type(n) ==
    CASE n.kind = "Integer" -> "IntegerTy"
      [] n.kind = "Fractional" -> "FractionalTy"
      [] n.kind = "String" -> "StringTy"
      [] n.kind = "Boolean" -> "BooleanTy"
      [] OTHER -> "UndefinedTy"

(***************************************************************************)
(* Symbol tables: a table is a function from names to entries.             *)
(***************************************************************************)
NewSymbolTable == [n \in {} |-> Null]

SymInsert(tab, name, v, ty) ==
    [n \in (DOMAIN tab) \cup {name} |->
        IF n = name THEN [node |-> v, type |-> ty] ELSE tab[n]]

SymHas(tab, name) == name \in DOMAIN tab

\* symbol_table_stack.top()->insert(name, v, ty)
InsertTop(sts, name, v, ty) ==
    [sts EXCEPT ![Len(sts)] = SymInsert(sts[Len(sts)], name, v, ty)]

Push(s, e) == Append(s, e)
Pop(s) == SubSeq(s, 1, Len(s) - 1)
Top(s) == s[Len(s)]

RECURSIVE lookup_search(_, _, _)

\* A lookup that inspects the innermost table only.
lookup_search_top_only(sts, aux, name) ==
    IF sts # <<>> /\ SymHas(Top(sts), name)
    THEN [result |-> Top(sts)[name].node, sts |-> sts, aux |-> aux]
    ELSE [result |-> Null, sts |-> sts, aux |-> aux]

\* The first loop of lookup(): pop tables into aux until one holds the name.
lookup_search(sts, aux, name) ==
    IF sts = <<>> THEN [result |-> Null, sts |-> sts, aux |-> aux]
    ELSE IF SymHas(Top(sts), name)
         THEN [result |-> Top(sts)[name].node, sts |-> sts, aux |-> aux]
         ELSE lookup_search(Pop(sts), Push(aux, Top(sts)), name)

RECURSIVE lookup_restore(_, _)

\* A restore that pushes the tables back oldest first.
RECURSIVE lookup_restore_fifo(_, _)
lookup_restore_fifo(sts, aux) ==
    IF aux = <<>> THEN sts
    ELSE lookup_restore_fifo(Push(sts, Head(aux)), Tail(aux))

\* The second loop of lookup(): push the tables of aux back.
lookup_restore(sts, aux) ==
    IF aux = <<>> THEN sts
    ELSE lookup_restore(Push(sts, Top(aux)), Pop(aux))

\* lookup(name) on the stack sts: the node found and the stack it leaves.
lookup(sts, name) ==
    LET s == lookup_search(sts, <<>>, name)
    IN  [result |-> s.result, sts |-> lookup_restore(s.sts, s.aux)]

\* lookup_or_new_var(name): the Variable, and the stack and heap it leaves.
lookup_or_new_var(sts, hp, name) ==
    LET l == lookup(sts, name)
    IN  IF l.result # Null
        THEN [v |-> l.result, sts |-> l.sts, heap |-> hp, fresh |-> FALSE]
        ELSE LET v == Variable(Len(hp) + 1, name)
             IN  [v |-> v, sts |-> InsertTop(l.sts, name, v, "UndefinedTy"),
                  heap |-> Append(hp, name), fresh |-> TRUE]

\* One entry of the history occ.
Occ(name, v, fresh, where) ==
    [name |-> name, id |-> v.id, fresh |-> fresh, where |-> where]

(***************************************************************************)
(* The parser as a machine: frames, calls, returns, abort.                 *)
(***************************************************************************)
At(f, pc) ==
    /\ status = "running"
    /\ frames # <<>>
    /\ Top(frames).f = f
    /\ Top(frames).pc = pc

Me == Top(frames)

\* The frames after the running function moves on as frame fr.
Stay(fr) == [frames EXCEPT ![Len(frames)] = fr]

\* The frames after the running function, continuing as fr, calls callee.
Call(fr, callee) == Append(Stay(fr), callee)

\* One step of the parser: the tokenizer state tz, the frames fs, the
\* returned value r, the scope stack, the heap, the history, the modules.
Step(tz, fs, r, sts, hp, oc, ms) ==
    /\ idx' = tz.idx
    /\ lineno' = tz.lineno
    /\ frames' = fs
    /\ ret' = r
    /\ symbol_table_stack' = sts
    /\ heap' = hp
    /\ occ' = oc
    /\ module_stack' = ms
    /\ UNCHANGED <<input, status, text, result, err>>

\* A step that touches only the tokenizer and the control state.
Go(tz, fs, r) == Step(tz, fs, r, symbol_table_stack, heap, occ, module_stack)

\* return v
Return(tz, v) == Go(tz, Pop(frames), v)

\* Tokenizer::position(): the current character and the line.
\* Past the end of the text the character read is whatever the memory holds.
INDETERMINATE == "INDETERMINATE"

position(tz) ==
    [char |-> IF tz.idx <= Len(text) THEN CharAt(tz.idx) ELSE INDETERMINATE,
     line |-> tz.lineno, idx |-> tz.idx]

NoPosition == [char |-> "", line |-> 0, idx |-> 0]

\* abort(msg), reached with scope stack sts, heap hp and history oc: the
\* diagnostic is written and the process exits.
abort_in(tz, msg, haspos, sts, hp, oc) ==
    /\ status' = "error"
    /\ err' = [msg |-> msg, haspos |-> haspos,
               pos |-> IF haspos THEN position(tz) ELSE NoPosition]
    /\ idx' = tz.idx
    /\ lineno' = tz.lineno
    /\ symbol_table_stack' = sts
    /\ heap' = hp
    /\ occ' = oc
    /\ UNCHANGED <<input, text, frames, ret, module_stack, result>>

abort(tz, msg, haspos) == abort_in(tz, msg, haspos, symbol_table_stack, heap, occ)

\* expect(tokenizer->peek(), ty, msg): does the check pass from state tz?
expect_ok(tz, ty) == peek(tz).type = ty

\* expect() failing: the message names the position after peek().
expect_fail(tz, msg) == abort(AfterPeek(tz), msg, TRUE)

Frame(f) == [f |-> f, pc |-> "entry"]

NoTok == Tok("None", <<>>)

(***************************************************************************)
(* Bounds                                                                  *)
(***************************************************************************)
\* How far past the end of the text a raw character scan is followed.
MaxOverrun == 2

\* How many fragments the body of an extern call is followed to (at the end
\* of the input externcall()'s loop appends empty fragments without end).
MaxBody == 12

(***************************************************************************)
(* parse_string, module                                                    *)
(***************************************************************************)
\* parse_string(text): wrap the text in braces, make the tokenizer, call module().
ParseString ==
    /\ status = "idle"
    /\ status' = "running"
    /\ text' = <<"{">> \o input \o <<"}">>
    /\ idx' = 0
    /\ lineno' = 1
    /\ frames' = <<[f |-> "parse_string", pc |-> "after_module"], Frame("module")>>
    /\ UNCHANGED <<input, ret, symbol_table_stack, module_stack, heap, result,
                   err, occ>>

\* parse_string after module(): expect end of string, return the Module.
parse_string_end ==
    /\ At("parse_string", "after_module")
    /\ IF ~expect_ok(TZ, "EOS") THEN expect_fail(TZ, "Expected end of string.")
       ELSE /\ status' = "done"
            /\ result' = ret
            /\ frames' = Pop(frames)
            /\ idx' = next(TZ).idx
            /\ lineno' = next(TZ).lineno
            /\ UNCHANGED <<input, text, ret, symbol_table_stack, module_stack,
                           heap, err, occ>>

\* module(): new Module, push_module, call block().
module_entry ==
    /\ At("module", "entry")
    /\ Step(TZ, Call([Me EXCEPT !.pc = "after_block"], Frame("block")), ret,
            symbol_table_stack, heap, occ,
            Push(module_stack, Module(Null, <<>>)))

\* module() after block(): set_main, pop_module, return the Module.
module_end ==
    /\ At("module", "after_block")
    /\ LET m == Top(module_stack)
           pre_main == Function(bish_main, <<>>, ret)
       IN  Step(TZ, Pop(frames), [m EXCEPT !.main = pre_main],
                symbol_table_stack, heap, occ, Pop(module_stack))

(***************************************************************************)
(* block                                                                   *)
(***************************************************************************)
\* block(): push a new symbol table, expect '{'.
block_entry ==
    /\ At("block", "entry")
    /\ IF ~expect_ok(TZ, "LBrace")
       THEN abort_in(AfterPeek(TZ), "Expected block to begin with '{'", TRUE,
                     Push(symbol_table_stack, NewSymbolTable), heap, occ)
       ELSE Step(next(TZ), Stay([f |-> "block", pc |-> "loop", statements |-> <<>>]),
                 ret, Push(symbol_table_stack, NewSymbolTable), heap, occ,
                 module_stack)

\* The head of block()'s do-loop: a '#' starts scan_until('\n'); then stmt().
block_loop ==
    /\ At("block", "loop")
    /\ LET tz == AfterPeek(TZ)
       IN  IF peek(TZ).type = "Sharp"
           THEN Go(tz, Call([Me EXCEPT !.pc = "after_scan"],
                            [f |-> "scan_until_char", pc |-> "loop",
                             start |-> tz.idx, c |-> NL]), ret)
           ELSE Go(tz, Call([Me EXCEPT !.pc = "after_stmt"], Frame("stmt")), ret)

\* block() after the comment scan: stmt().
block_after_scan ==
    /\ At("block", "after_scan")
    /\ Go(TZ, Call([Me EXCEPT !.pc = "after_stmt"], Frame("stmt")), ret)

\* block() after stmt(): keep the statement; repeat until '}', then pop the
\* symbol table and return the Block.
block_after_stmt ==
    /\ At("block", "after_stmt")
    /\ LET statements == IF ret # Null THEN Append(Me.statements, ret)
                         ELSE Me.statements
       IN  IF peek(TZ).type # "RBrace"
           THEN Go(AfterPeek(TZ),
                   Stay([Me EXCEPT !.pc = "loop", !.statements = statements]), ret)
           ELSE Step(next(TZ), Pop(frames), Block(statements),
                     Pop(symbol_table_stack), heap, occ, module_stack)

(***************************************************************************)
(* stmt, otherstmt                                                         *)
(***************************************************************************)
\* stmt(): dispatch on the token at the head.
stmt_entry ==
    /\ At("stmt", "entry")
    /\ LET ty == peek(TZ).type
           callee == CASE ty = "LBrace" -> "block"
                       [] ty = "At" -> "externcall"
                       [] ty = "If" -> "ifstmt"
                       [] ty = "Def" -> "functiondef"
                       [] OTHER -> "otherstmt"
       IN  Go(AfterPeek(TZ),
              Call([Me EXCEPT !.pc = IF ty = "Def" THEN "after_def" ELSE "after_call"],
                   Frame(callee)), ret)

\* stmt(): return what the statement parser returned.
stmt_return ==
    /\ At("stmt", "after_call")
    /\ Return(TZ, ret)

\* stmt() after functiondef(): add the function to the module, return NULL.
stmt_after_def ==
    /\ At("stmt", "after_def")
    /\ LET m == Top(module_stack)
       IN  Step(TZ, Pop(frames), Null, symbol_table_stack, heap, occ,
                [module_stack EXCEPT ![Len(module_stack)] =
                    [m EXCEPT !.functions = Append(m.functions, ret)]])

\* otherstmt(): a symbol, then an assignment or a function call.
otherstmt_entry ==
    /\ At("otherstmt", "entry")
    /\ IF ~expect_ok(TZ, "Symbol") THEN expect_fail(TZ, "Expected symbol.")
       ELSE LET sym == peek(TZ).value
                t1 == next(TZ)
                ty == peek(t1).type
            IN  IF ty = "Equals"
                THEN Go(AfterPeek(t1),
                        Call([Me EXCEPT !.pc = "after_call"],
                             [f |-> "assignment", pc |-> "entry", name |-> sym]), ret)
                ELSE IF ty = "LParen"
                THEN Go(AfterPeek(t1),
                        Call([Me EXCEPT !.pc = "after_call"],
                             [f |-> "funcall", pc |-> "entry", name |-> sym,
                              args |-> <<>>]), ret)
                ELSE abort(AfterPeek(t1), "Unexpected token in statement.", FALSE)

\* otherstmt() after the assignment or call: expect ';'.
otherstmt_end ==
    /\ At("otherstmt", "after_call")
    /\ IF ~expect_ok(TZ, "Semicolon")
       THEN expect_fail(TZ, "Expected statement to end with ';'")
       ELSE Return(next(TZ), ret)

(***************************************************************************)
(* The scanning primitives of the Tokenizer                                *)
(***************************************************************************)
\* scan_until(type_a, type_b): start = idx; t = peek().
scan_until_ab_entry ==
    /\ At("scan_until_ab", "entry")
    /\ Go(AfterPeek(TZ),
          Stay([Me EXCEPT !.pc = "loop", !.start = idx, !.t = peek(TZ)]), ret)

\* One test of scan_until(type_a, type_b)'s loop: next() and peek(), or return
\* the substring.
scan_until_ab_loop ==
    /\ At("scan_until_ab", "loop")
    /\ IF ~(Me.t.type = Me.type_a \/ Me.t.type = Me.type_b) /\ ~eos(idx)
       THEN LET t1 == next(TZ)
            IN  Go(AfterPeek(t1), Stay([Me EXCEPT !.t = peek(t1)]), ret)
       ELSE Return(TZ, substr(Me.start, idx - Me.start))

\* scan_until(type): start = idx; t = peek().
scan_until_type_entry ==
    /\ At("scan_until_type", "entry")
    /\ Go(AfterPeek(TZ),
          Stay([Me EXCEPT !.pc = "loop", !.start = idx, !.t = peek(TZ)]), ret)

\* One test of scan_until(type)'s loop.
scan_until_type_loop ==
    /\ At("scan_until_type", "loop")
    /\ IF ~(Me.t.type = Me.type) /\ ~eos(idx)
       THEN LET t1 == next(TZ)
            IN  Go(AfterPeek(t1), Stay([Me EXCEPT !.t = peek(t1)]), ret)
       ELSE Return(TZ, substr(Me.start, idx - Me.start))

\* What reading text[i] can give in scan_until(char c): the character of the
\* text, the terminator at the length, and past it whatever the memory holds
\* (c, something else) or a fault.
CharReads(i, c) ==
    IF i <= Len(text) THEN {IF CharAt(i) = c THEN "match" ELSE "other"}
    ELSE IF i - Len(text) < MaxOverrun THEN {"match", "other", "fault"}
    ELSE {"match", "fault"}

\* One test of scan_until(char c)'s loop: idx++ while curchar() != c.
scan_until_char_loop ==
    /\ At("scan_until_char", "loop")
    /\ \E rd \in CharReads(idx, Me.c) :
          CASE rd = "other" -> Go([idx |-> idx + 1, lineno |-> lineno], frames, ret)
            [] rd = "match" -> Return(TZ, substr(Me.start, idx - Me.start))
            [] rd = "fault" ->
                 /\ status' = "crash"
                 /\ UNCHANGED <<input, text, idx, lineno, frames, ret,
                                symbol_table_stack, module_stack, heap, result,
                                err, occ>>

(***************************************************************************)
(* externcall                                                              *)
(***************************************************************************)
ScanAB(a, b) ==
    [f |-> "scan_until_ab", pc |-> "entry", type_a |-> a, type_b |-> b,
     start |-> 0, t |-> NoTok]

ScanType(ty) ==
    [f |-> "scan_until_type", pc |-> "entry", type |-> ty, start |-> 0, t |-> NoTok]

\* externcall(): expect '@' and '(', then scan the first literal fragment.
externcall_entry ==
    /\ At("externcall", "entry")
    /\ IF ~expect_ok(TZ, "At") THEN expect_fail(TZ, "Expected '@' to begin extern call.")
       ELSE LET t1 == next(TZ)
            IN  IF ~expect_ok(t1, "LParen") THEN expect_fail(t1, "Expected opening '('")
                ELSE Go(next(t1),
                        Call([f |-> "externcall", pc |-> "after_scan", body |-> <<>>],
                             ScanAB("Dollar", "RParen")), ret)

\* The end of externcall(): expect ';' and return the ExternCall.
externcall_end(tz, body, sts, hp, oc) ==
    IF ~expect_ok(tz, "Semicolon")
    THEN abort_in(AfterPeek(tz), "Expected statement to end with ';'", TRUE, sts, hp, oc)
    ELSE Step(next(tz), Pop(frames), ExternCall(body), sts, hp, oc, module_stack)

\* The test of externcall()'s do-loop: unless ')' follows, scan the next
\* fragment; else skip the ')'.
externcall_while(tz, body, sts, hp, oc) ==
    IF peek(tz).type # "RParen"
    THEN /\ Len(body) < MaxBody
         /\ Step(AfterPeek(tz),
                 Call([Me EXCEPT !.body = body], ScanAB("Dollar", "RParen")),
                 ret, sts, hp, oc, module_stack)
    ELSE externcall_end(next(tz), body, sts, hp, oc)

\* body->push_var(v) for the Variable lv that var() returned for name.
externcall_push_var(tz, body, name, lv) ==
    externcall_while(tz, Append(body, VarItem(lv.v)), lv.sts, lv.heap,
                     Append(occ, Occ(name, lv.v, lv.fresh, "interpolation")))

\* var() after the '$' of an interpolation: the symbol is looked up or made.
externcall_var(tz, body) ==
    IF ~expect_ok(tz, "Symbol") THEN expect_fail(tz, "Expected variable to be a symbol")
    ELSE externcall_push_var(next(tz), body, peek(tz).value,
                             lookup_or_new_var(symbol_table_stack, heap, peek(tz).value))

\* The body of externcall()'s do-loop after scan_until(): push the fragment,
\* read a '$' interpolation, and repeat until ')'; then expect ')' and ';'.
externcall_after_scan ==
    /\ At("externcall", "after_scan")
    /\ IF peek(TZ).type = "Dollar"
       THEN externcall_var(next(TZ), Append(Me.body, StrItem(ret)))
       ELSE externcall_while(AfterPeek(TZ), Append(Me.body, StrItem(ret)),
                             symbol_table_stack, heap, occ)

(***************************************************************************)
(* ifstmt, functiondef, funcall, assignment                                *)
(***************************************************************************)
\* ifstmt(): expect 'if' and '(', then expr().
ifstmt_entry ==
    /\ At("ifstmt", "entry")
    /\ IF ~expect_ok(TZ, "If") THEN expect_fail(TZ, "Expected if statement")
       ELSE LET t1 == next(TZ)
            IN  IF ~expect_ok(t1, "LParen") THEN expect_fail(t1, "Expected opening '('")
                ELSE Go(next(t1), Call([Me EXCEPT !.pc = "after_cond"], Frame("expr")),
                        ret)

\* ifstmt() after the condition: expect ')', then block().
ifstmt_after_cond ==
    /\ At("ifstmt", "after_cond")
    /\ IF ~expect_ok(TZ, "RParen") THEN expect_fail(TZ, "Expected closing ')'")
       ELSE Go(next(TZ),
               Call([f |-> "ifstmt", pc |-> "after_body", cond |-> ret],
                    Frame("block")), ret)

\* ifstmt() after the body: return the IfStatement.
ifstmt_end ==
    /\ At("ifstmt", "after_body")
    /\ Return(TZ, IfStatement(Me.cond, ret))

\* A parameter that reuses a visible Variable of the same name.
arg_reuses_visible(tz, sts, hp) ==
    LET name == peek(tz).value
        r == lookup_or_new_var(sts, hp, name)
    IN  [v |-> r.v, name |-> name, tz |-> next(tz), sts |-> r.sts, heap |-> r.heap]

\* arg() from tokenizer state tz: always a new Variable, inserted in the top table.
arg(tz, sts, hp) ==
    LET name == peek(tz).value
        v == Variable(Len(hp) + 1, name)
    IN  [v |-> v, name |-> name, tz |-> next(tz),
         sts |-> InsertTop(sts, name, v, "UndefinedTy"),
         heap |-> Append(hp, name)]

\* args.push_back(arg()) for the result a of arg().
functiondef_push_arg(fr, a) ==
    Step(a.tz, Stay([fr EXCEPT !.pc = "args", !.args = Append(fr.args, a.v)]), ret,
         a.sts, a.heap, Append(occ, Occ(a.name, a.v, TRUE, "arg")), module_stack)

\* functiondef() after '(': the function's symbol table is pushed; the first
\* parameter is read unless ')' follows.
functiondef_first_arg(tz, name, sts) ==
    IF peek(tz).type = "RParen"
    THEN Step(AfterPeek(tz),
              Stay([f |-> "functiondef", pc |-> "args", name |-> name, args |-> <<>>]),
              ret, sts, heap, occ, module_stack)
    ELSE IF ~expect_ok(tz, "Symbol")
    THEN abort_in(AfterPeek(tz), "Expected argument to be a symbol", TRUE, sts, heap, occ)
    ELSE functiondef_push_arg([f |-> "functiondef", pc |-> "args", name |-> name,
                               args |-> <<>>], arg(tz, sts, heap))

\* functiondef() after the name: expect '('.
functiondef_lparen(tz, name) ==
    IF ~expect_ok(tz, "LParen") THEN expect_fail(tz, "Expected opening '('")
    ELSE functiondef_first_arg(next(tz), name, Push(symbol_table_stack, NewSymbolTable))

\* functiondef() after 'def': name = symbol().
functiondef_name(tz) ==
    IF ~expect_ok(tz, "Symbol") THEN expect_fail(tz, "Expected symbol.")
    ELSE functiondef_lparen(next(tz), peek(tz).value)

\* functiondef(): expect 'def', the name and '('; push the function's symbol
\* table; read the first parameter unless ')' follows.
functiondef_entry ==
    /\ At("functiondef", "entry")
    /\ IF ~expect_ok(TZ, "Def") THEN expect_fail(TZ, "Expected def statement")
       ELSE functiondef_name(next(TZ))

\* One more parameter after ','.
functiondef_next_arg(tz) ==
    IF ~expect_ok(tz, "Symbol") THEN expect_fail(tz, "Expected argument to be a symbol")
    ELSE functiondef_push_arg(Me, arg(tz, symbol_table_stack, heap))

\* functiondef()'s loop over ", arg"; then expect ')' and call block().
functiondef_args ==
    /\ At("functiondef", "args")
    /\ IF peek(TZ).type = "Comma"
       THEN functiondef_next_arg(next(TZ))
       ELSE IF ~expect_ok(TZ, "RParen") THEN expect_fail(TZ, "Expected closing ')'")
       ELSE Go(next(TZ), Call([Me EXCEPT !.pc = "after_body"], Frame("block")), ret)

\* functiondef() after the body: pop the function's symbol table, return.
functiondef_end ==
    /\ At("functiondef", "after_body")
    /\ Step(TZ, Pop(frames), Function(Me.name, Me.args, ret),
            Pop(symbol_table_stack), heap, occ, module_stack)

\* funcall(name): expect '('; parse the first atom unless ')' follows.
funcall_entry ==
    /\ At("funcall", "entry")
    /\ IF ~expect_ok(TZ, "LParen") THEN expect_fail(TZ, "Expected opening '('")
       ELSE LET t1 == next(TZ)
            IN  IF peek(t1).type # "RParen"
                THEN Go(AfterPeek(t1), Call([Me EXCEPT !.pc = "after_arg"], Frame("atom")),
                        ret)
                ELSE Go(AfterPeek(t1), Stay([Me EXCEPT !.pc = "close"]), ret)

\* funcall() after an atom: keep it; after ',' parse another.
funcall_after_arg ==
    /\ At("funcall", "after_arg")
    /\ LET args == Append(Me.args, ret)
       IN  IF peek(TZ).type = "Comma"
           THEN Go(next(TZ), Call([Me EXCEPT !.args = args], Frame("atom")), ret)
           ELSE Go(AfterPeek(TZ), Stay([Me EXCEPT !.pc = "close", !.args = args]), ret)

\* funcall(): expect ')', return the FunctionCall.
funcall_close ==
    /\ At("funcall", "close")
    /\ IF ~expect_ok(TZ, "RParen") THEN expect_fail(TZ, "Expected closing ')'")
       ELSE Return(next(TZ), FunctionCall(Me.name, Me.args))

\* assignment(name): expect '=', look the variable up or make it, call expr().
assignment_entry ==
    /\ At("assignment", "entry")
    /\ IF ~expect_ok(TZ, "Equals") THEN expect_fail(TZ, "Expected assignment operator")
       ELSE LET lv == lookup_or_new_var(symbol_table_stack, heap, Me.name)
            IN  Step(next(TZ),
                     Call([f |-> "assignment", pc |-> "after_expr", name |-> Me.name,
                           v |-> lv.v], Frame("expr")),
                     ret, lv.sts, lv.heap,
                     Append(occ, Occ(Me.name, lv.v, lv.fresh, "assignment")),
                     module_stack)

\* assignment() after expr(): a literal's type is inserted with the variable
\* in the top table; return the Assignment.
assignment_end ==
    /\ At("assignment", "after_expr")
    /\ LET ty == get_primitive_type(ret)
       IN  Step(TZ, Pop(frames), Assignment(Me.v, ret),
                IF ty # "UndefinedTy"
                THEN InsertTop(symbol_table_stack, Me.name, Me.v, ty)
                ELSE symbol_table_stack,
                heap, occ, module_stack)

(***************************************************************************)
(* Expressions                                                             *)
(***************************************************************************)
\* expr(): a = arith().
expr_entry ==
    /\ At("expr", "entry")
    /\ Go(TZ, Call([f |-> "expr", pc |-> "after_left", a |-> Null], Frame("arith")), ret)

\* expr() after the left operand: on '==' parse one right operand, else return.
expr_after_left ==
    /\ At("expr", "after_left")
    /\ IF peek(TZ).type = "DoubleEquals"
       THEN Go(next(TZ),
               Call([Me EXCEPT !.pc = "after_right", !.a = ret], Frame("arith")), ret)
       ELSE Return(AfterPeek(TZ), ret)

\* An expr() that absorbs one "==" after another, comparing left to right.
expr_after_right_chains ==
    /\ At("expr", "after_right")
    /\ IF peek(TZ).type = "DoubleEquals"
       THEN Go(next(TZ), Call([Me EXCEPT !.a = Comparison(Me.a, ret)], Frame("arith")), ret)
       ELSE Return(TZ, Comparison(Me.a, ret))

\* expr() after the right operand: return the Comparison.
expr_after_right ==
    /\ At("expr", "after_right")
    /\ Return(TZ, Comparison(Me.a, ret))

\* The while-loop of arith() with left operand a: on '+' or '-' skip the
\* operator and call term(); otherwise return a.
arith_while(a) ==
    LET t == peek(TZ)
    IN  IF t.type = "Plus" \/ t.type = "Minus"
        THEN Go(next(TZ),
                Call([f |-> "arith", pc |-> "after_term", a |-> a, t |-> t],
                     Frame("term")), ret)
        ELSE Return(AfterPeek(TZ), a)

\* arith(): a = term().
arith_entry ==
    /\ At("arith", "entry")
    /\ Go(TZ, Call([f |-> "arith", pc |-> "after_first", a |-> Null, t |-> NoTok],
                   Frame("term")), ret)

\* arith() after the first term.
arith_after_first ==
    /\ At("arith", "after_first")
    /\ arith_while(ret)

\* arith() after a further term: a = BinOp(op, a, term).
arith_after_term ==
    /\ At("arith", "after_term")
    /\ arith_while(BinOp(get_binop_operator(Me.t), Me.a, ret))

\* A term() that takes '+' and '-' as it takes '*' and '/'.
term_while_any_operator(a) ==
    LET t == peek(TZ)
    IN  IF t.type \in {"Star", "Slash", "Plus", "Minus"}
        THEN Go(next(TZ),
                Call([f |-> "term", pc |-> "after_unary", a |-> a, t |-> t],
                     Frame("unary")), ret)
        ELSE Return(AfterPeek(TZ), a)

\* The while-loop of term() with left operand a.
term_while(a) ==
    LET t == peek(TZ)
    IN  IF t.type = "Star" \/ t.type = "Slash"
        THEN Go(next(TZ),
                Call([f |-> "term", pc |-> "after_unary", a |-> a, t |-> t],
                     Frame("unary")), ret)
        ELSE Return(AfterPeek(TZ), a)

\* term(): a = unary().
term_entry ==
    /\ At("term", "entry")
    /\ Go(TZ, Call([f |-> "term", pc |-> "after_first", a |-> Null, t |-> NoTok],
                   Frame("unary")), ret)

\* term() after the first unary.
term_after_first ==
    /\ At("term", "after_first")
    /\ term_while(ret)

\* term() after a further unary: a = BinOp(op, a, unary).
term_after_unary ==
    /\ At("term", "after_unary")
    /\ term_while(BinOp(get_binop_operator(Me.t), Me.a, ret))

is_unop_token(t) == t.type = "Minus"

\* unary(): on '-' skip it and negate the factor; else the factor itself.
unary_entry ==
    /\ At("unary", "entry")
    /\ IF is_unop_token(peek(TZ))
       THEN Go(next(TZ), Call([Me EXCEPT !.pc = "negate"], Frame("factor")), ret)
       ELSE Go(AfterPeek(TZ), Call([Me EXCEPT !.pc = "plain"], Frame("factor")), ret)

\* unary(): return UnaryOp(Negate, factor).
unary_negate ==
    /\ At("unary", "negate")
    /\ Return(TZ, UnaryOp("Negate", ret))

\* unary(): return the factor.
unary_plain ==
    /\ At("unary", "plain")
    /\ Return(TZ, ret)

\* factor(): on '(' skip it and call expr(); else atom().
factor_entry ==
    /\ At("factor", "entry")
    /\ IF peek(TZ).type = "LParen"
       THEN Go(next(TZ), Call([Me EXCEPT !.pc = "after_expr"], Frame("expr")), ret)
       ELSE Go(AfterPeek(TZ), Call([Me EXCEPT !.pc = "after_atom"], Frame("atom")), ret)

\* factor() after the parenthesized expression: expect ')'.
factor_after_expr ==
    /\ At("factor", "after_expr")
    /\ IF ~expect_ok(TZ, "RParen") THEN expect_fail(TZ, "Unmatched '('")
       ELSE Return(next(TZ), ret)

\* factor(): return the atom.
factor_after_atom ==
    /\ At("factor", "after_atom")
    /\ Return(TZ, ret)

\* atom(): take the token at the head; a symbol is a variable, a number a
\* literal, a quote starts a string.
atom_entry ==
    /\ At("atom", "entry")
    /\ LET t == peek(TZ)
           t1 == next(TZ)
           lv == lookup_or_new_var(symbol_table_stack, heap, t.value)
       IN  CASE t.type = "Symbol" ->
                  Step(t1, Pop(frames), lv.v, lv.sts, lv.heap,
                       Append(occ, Occ(t.value, lv.v, lv.fresh, "atom")), module_stack)
             [] t.type = "Int" -> Return(t1, Integer(t.value))
             [] t.type = "Fractional" -> Return(t1, Fractional(t.value))
             [] t.type = "Quote" ->
                  Go(t1, Call([Me EXCEPT !.pc = "after_string"], ScanType("Quote")), ret)
             [] OTHER -> abort(t1, "Invalid token type for atom.", FALSE)

\* atom() after scan_until(Quote): expect the closing quote, return the String.
atom_after_string ==
    /\ At("atom", "after_string")
    /\ IF ~expect_ok(TZ, "Quote") THEN expect_fail(TZ, "Unmatched '\"'")
       ELSE Return(next(TZ), String(ret))

(***************************************************************************)
(* Specification                                                           *)
(***************************************************************************)
NoError == [msg |-> "", haspos |-> FALSE, pos |-> NoPosition]

\* The state after construction, with the argument of parse_string drawn from S.
InitFrom(S) ==
    /\ input \in S
    /\ status = "idle"
    /\ text = <<>>
    /\ idx = 0
    /\ lineno = 1
    /\ frames = <<>>
    /\ ret = Null
    /\ symbol_table_stack = <<>>
    /\ module_stack = <<>>
    /\ heap = <<>>
    /\ result = Null
    /\ err = NoError
    /\ occ = <<>>

Next ==
    \/ ParseString
    \/ parse_string_end
    \/ module_entry
    \/ module_end
    \/ block_entry
    \/ block_loop
    \/ block_after_scan
    \/ block_after_stmt
    \/ stmt_entry
    \/ stmt_return
    \/ stmt_after_def
    \/ otherstmt_entry
    \/ otherstmt_end
    \/ scan_until_ab_entry
    \/ scan_until_ab_loop
    \/ scan_until_type_entry
    \/ scan_until_type_loop
    \/ scan_until_char_loop
    \/ externcall_entry
    \/ externcall_after_scan
    \/ ifstmt_entry
    \/ ifstmt_after_cond
    \/ ifstmt_end
    \/ functiondef_entry
    \/ functiondef_args
    \/ functiondef_end
    \/ funcall_entry
    \/ funcall_after_arg
    \/ funcall_close
    \/ assignment_entry
    \/ assignment_end
    \/ expr_entry
    \/ expr_after_left
    \/ expr_after_right
    \/ arith_entry
    \/ arith_after_first
    \/ arith_after_term
    \/ term_entry
    \/ term_after_first
    \/ term_after_unary
    \/ unary_entry
    \/ unary_negate
    \/ unary_plain
    \/ factor_entry
    \/ factor_after_expr
    \/ factor_after_atom
    \/ atom_entry
    \/ atom_after_string

(***************************************************************************)
(* Inputs: the texts parse_string is applied to.                           *)
(***************************************************************************)
\* All sequences of at most n elements of the set S.
SeqsUpTo(S, n) == UNION {[1..k -> S] : k \in 0..n}

RECURSIVE Flatten(_)
Flatten(ss) == IF ss = <<>> THEN <<>> ELSE Head(ss) \o Flatten(Tail(ss))

\* Texts with no statement at all.
WhitespaceInputs ==
    {<<>>,
     <<" ">>,
     <<"\n">>,
     <<" ", "\n", "\t">>}

\* Nested scopes: a statement, an opener, the nested program, '}', and after
\* the outermost '}' a last statement.
MaxDepth == 2

StmtAssignLiteral == <<"a", " ", "=", " ", "1", ";">>   \* a = 1;
StmtAssignAtom == <<"b", " ", "=", " ", "a", ";">>   \* b = a;
StmtInterpolate == <<"@", "(", "$", "a", " ", "$", "b", ")", ";">>   \* @($a $b);
OpenBlock == <<"{", " ">>   \* { 
OpenFunction == <<"d", "e", "f", " ", "f", "(", "a", ")", " ", "{", " ">>   \* def f(a) { 
CloseBrace == <<" ", "}">>   \*  }
StmtLast == <<" ", "b", " ", "=", " ", "a", ";">>   \*  b = a;

ScopeStmts == {StmtAssignLiteral, StmtAssignAtom, StmtInterpolate}
ScopeOpeners == {OpenBlock, OpenFunction}

RECURSIVE Nest(_)
Nest(d) ==
    IF d = 0 THEN ScopeStmts
    ELSE {s \o o \o p \o CloseBrace : s \in ScopeStmts, o \in ScopeOpeners, p \in Nest(d - 1)}

ScopeInputs(depth) ==
    {p \o t : p \in UNION {Nest(d) : d \in 0..depth}, t \in {<<>>, StmtLast}}

\* Extern calls: "@(" body ");" with the body a sequence of fragments.
MaxFragments == 3

ExternFragments ==
    {<<"l", "s">>,
     <<" ">>,
     <<"$", "x">>,
     <<"\n">>,
     <<".">>}

ExternInputs(n) ==
    {<<"@", "(">> \o Flatten(b) \o <<")", ";">> : b \in SeqsUpTo(ExternFragments, n)}

\* Comments: a sequence of comment lines and statements.
MaxItems == 3

CommentLine == <<"#", "c", "\n">>   \* #c\n
CommentOpen == <<"#", "c">>   \* #c (no newline)
PlainStmt == <<"a", "=", "1", ";">>   \* a=1;

CommentItems == {CommentLine, PlainStmt}

CommentInputs(n) ==
    {Flatten(b) : b \in SeqsUpTo(CommentItems, n)}
        \cup {PlainStmt \o CommentOpen, CommentOpen}

\* Malformed statements, on the first line or after some lines.
BadStmts ==
    {<<"i", "f", " ", "(", "1", " ", "{", " ", "}">>,
     <<"a", " ", "+", " ", "1", ";">>,
     <<"a", " ", "=", " ", ";">>,
     <<"a", " ", "=", " ", "1">>,
     <<"f", "(", "1", ";">>,
     <<"a", " ", "=", " ", "(", "1", ";">>,
     <<"a", " ", "=", " ", "\"", "s", ";">>,
     <<"@", " ", "x", ";">>,
     <<"d", "e", "f", " ", "(", "a", ")", " ", "{", " ", "a", " ", "=", " ", "1", ";", " ", "}">>,
     <<"d", "e", "f", " ", "f", "(", "1", ")", " ", "{", " ", "a", " ", "=", " ", "1", ";", " ", "}">>,
     <<"d", "e", "f", " ", "f", "(", "a", ",", " ", ")", " ", "{", " ", "a", " ", "=", " ", "1", ";", " ", "}">>,
     <<"a", " ", "=", " ", "1", " ", "+", ";">>,
     <<"{", " ", "a", " ", "=", " ", "1", ";">>,
     <<"}">>,
     <<"i", "f", " ", "1", " ", "{", " ", "a", " ", "=", " ", "1", ";", " ", "}">>,
     <<"i", "f", " ", "(", "1", ")", " ", "a", " ", "=", " ", "1", ";">>,
     <<"@", "(", "l", "s", " ", "$", "1", ")", ";">>,
     <<"@", "(", "l", "s", ")", " ", "a">>,
     <<"f", "(", "1", ",", ")", ";">>,
     <<"a", " ", "=", " ", "1", ";", "\n", " ", "b", " ", "=", " ", "\n", "\n", " ", "2", " ", "3", ";">>,
     <<"a", "\n", "=", " ", "1", "\n", ";", ";">>,
     <<"f", "(", "a", " ", "b", ")", ";">>}
LinePrefixes ==
    {<<>>,
     <<"\n">>,
     <<"a", " ", "=", " ", "1", ";", "\n">>,
     <<"\n", "\n", " ", "b", " ", "=", " ", "2", ";", " ", "\n">>}

ErrorInputs == {p \o b : p \in LinePrefixes, b \in BadStmts}

\* Comparisons in every place an expression is parsed.
EqExprs ==
    {<<"x", " ", "=", "=", " ", "y">>,
     <<"x", " ", "=", "=", " ", "y", " ", "=", "=", " ", "z">>,
     <<"x", " ", "=", "=", " ", "y", "\n", " ", "=", "=", " ", "z">>,
     <<"(", "x", " ", "=", "=", " ", "y", ")", " ", "=", "=", " ", "z">>,
     <<"x", " ", "=", "=", " ", "(", "y", " ", "=", "=", " ", "z", ")">>,
     <<"(", "x", " ", "=", "=", " ", "y", " ", "=", "=", " ", "z", ")">>,
     <<"(", "x", " ", "=", "=", " ", "y", ")", " ", "=", "=", " ", "(", "y", " ", "=", "=", " ", "z", ")">>,
     <<"x", " ", "+", " ", "1", " ", "=", "=", " ", "y", " ", "*", " ", "2", " ", "=", "=", " ", "z">>,
     <<"x", " ", "=", "=", " ", "y", " ", "=", "=", " ", "z", " ", "=", "=", " ", "x">>,
     <<"(", "(", "x", " ", "=", "=", " ", "y", ")", " ", "=", "=", " ", "z", ")", " ", "=", "=", " ", "x">>}

EqInputs ==
    {<<"a", "=">> \o e \o <<";">> : e \in EqExprs}
        \cup {<<"i", "f", "(">> \o e \o <<")", "{", "a", "=", "1", ";", "}">> : e \in EqExprs}
        \cup {<<"a", "=", "1", "+", "(">> \o e \o <<")", ";">> : e \in EqExprs}

\* Programs that use every construct of the grammar.
GeneralInputs ==
    {<<"a", " ", "=", " ", "1", ";", " ", "d", "e", "f", " ", "g", "(", "a", ",", " ", "a", ")", " ", "{", " ", "b", " ", "=", " ", "a", ";", " ", "}", " ", "b", " ", "=", " ", "a", ";">>,
     <<"x", "=", "1", "+", "2", "*", "3", ";">>,
     <<"a", " ", "=", " ", "1", ";", " ", "a", " ", "=", " ", "a", " ", "+", " ", "1", ";">>,
     <<"a", " ", "=", " ", "1", ";", " ", "{", " ", "a", " ", "=", " ", "a", " ", "+", " ", "1", ";", " ", "}">>,
     <<"d", "e", "f", " ", "f", "(", "x", ")", " ", "{", " ", "x", ";", " ", "}", " ", "g", "(", ")", ";">>,
     <<"d", "e", "f", " ", "f", "(", "x", ")", " ", "{", " ", "y", " ", "=", " ", "x", ";", " ", "}", " ", "g", "(", ")", ";">>,
     <<"@", "(", "e", "c", "h", "o", " ", "$", "x", ")", ";">>,
     <<"x", " ", "=", " ", "1", ".", "5", ";", " ", "s", " ", "=", " ", "\"", "h", "i", " ", "t", "h", "e", "r", "e", "\"", ";", " ", "f", "(", "1", ",", " ", "x", ",", " ", "\"", "s", "\"", ",", " ", "2", ".", "2", "5", ")", ";">>,
     <<"i", "f", " ", "(", "x", " ", "=", "=", " ", "-", "1", ")", " ", "{", " ", "y", " ", "=", " ", "(", "x", " ", "-", " ", "2", ")", " ", "/", " ", "3", " ", "-", " ", "1", ";", " ", "}", "\n", "#", " ", "d", "o", "n", "e", "\n", "f", "(", ")", ";">>,
     <<"d", "e", "f", " ", "f", "(", ")", " ", "{", " ", "a", " ", "=", " ", "1", ";", " ", "}", " ", "d", "e", "f", " ", "g", "(", "a", ",", " ", "b", ",", " ", "c", ")", " ", "{", " ", "@", "(", "l", "s", " ", "$", "a", " ", "|", " ", "w", "c", ")", ";", " ", "}">>,
     <<"a", " ", "=", " ", "\"", "x", ".", "y", "\"", ";">>,
     <<"a", " ", "=", " ", "1", " ", "|", " ", "2", ";">>,
     <<"x", " ", "=", " ", "y", ".", "z", ";">>,
     <<"@", "(", "l", "s">>,
     <<"@", "(", "l", "s", " ", "$", "a">>,
     <<"a", " ", "=", " ", "\"", "s">>,
     <<".">>,
     <<"f", "(", ".", ")", ";">>,
     <<"a", " ", "=", " ", "-", "(", "-", "1", ")", ";">>,
     <<"a", " ", "=", " ", "1", " ", "-", " ", "-", "1", ";">>}

Inputs(depth, fragments, items) ==
    WhitespaceInputs \cup ScopeInputs(depth) \cup ExternInputs(fragments)
        \cup CommentInputs(items) \cup ErrorInputs \cup EqInputs \cup GeneralInputs

Init == InitFrom(Inputs(MaxDepth, MaxFragments, MaxItems))

Spec == Init /\ [][Next]_vars

\* Expressions: every text over the alphabet that begins and ends as an
\* expression can, as the right-hand side of an assignment.
MaxExprLen == 5

ExprAlphabet == {"1", "+", "-", "*", "/", "(", ")"}

ExprTexts(len) ==
    {e \in UNION {[1..n -> ExprAlphabet] : n \in 1..len} :
        e[1] \in {"1", "(", "-"} /\ e[Len(e)] \in {"1", ")"}}

ExprInputs(len) == {<<"x", "=">> \o e \o <<";">> : e \in ExprTexts(len)}

\* Expressions with names, longer numbers and blanks.
ExprExamples ==
    {<<"x", "=", "a", "-", "b", "-", "c", ";">>,
     <<"x", "=", "(", "1", "+", "2", ")", "*", "3", ";">>,
     <<"x", "=", "-", "a", "*", "b", "+", "a", ";">>,
     <<"x", "=", "1", "2", "/", "a", "/", "(", "b", "-", "c", ")", ";">>,
     <<"x", "=", " ", "a", " ", "-", " ", "(", " ", "b", "+", "c", " ", ")", " ", "*", "2", " ", ";">>}

InitExpr == InitFrom(ExprInputs(MaxExprLen) \cup ExprExamples \cup GeneralInputs)

SpecExpr == InitExpr /\ [][Next]_vars

(***************************************************************************)
(* Properties                                                              *)
(***************************************************************************)
Ended == status \in {"done", "error", "crash"}

OnlyWhitespace(t) == \A i \in 1..Len(t) : is_whitespace(t[i])

\* The statements of the main function of the returned Module.
MainNodes == result.main.body.nodes

Last(s) == s[Len(s)]

\* C1: parse_string of a text with no statements (empty, or whitespace only)
\* returns a Module whose main function holds an empty block, and every Module
\* parse_string returns has its main function set.
C1_EmptyTextGivesEmptyMain ==
    /\ status = "done" => result.kind = "Module" /\ result.main.kind = "Function"
    /\ (Ended /\ OnlyWhitespace(input)) => (status = "done" /\ MainNodes = <<>>)

\* Some table on the stack sts holds the name.
Visible(sts, name) == \E i \in 1..Len(sts) : SymHas(sts[i], name)

\* The Variable of the innermost table of sts that holds the name.
InnermostBinding(sts, name) ==
    LET i == CHOOSE k \in 1..Len(sts) :
                 /\ SymHas(sts[k], name)
                 /\ \A j \in (k + 1)..Len(sts) : ~SymHas(sts[j], name)
    IN  sts[i][name].node

\* This step resolves an occurrence of a name (not a parameter declaration).
ResolvesName == Len(occ') = Len(occ) + 1 /\ Last(occ').where # "arg"

\* An occurrence resolves to the innermost visible binding and allocates
\* nothing; with no binding it allocates one Variable, bound in the top table.
ResolvedAsVisible ==
    LET o == Last(occ')
        top == Len(symbol_table_stack)
    IN  IF Visible(symbol_table_stack, o.name)
        THEN /\ o.id = InnermostBinding(symbol_table_stack, o.name).id
             /\ heap' = heap
        ELSE /\ o.id = Len(heap) + 1
             /\ heap' = Append(heap, o.name)
             /\ Len(symbol_table_stack') = top
             /\ SymHas(symbol_table_stack'[top], o.name)
             /\ symbol_table_stack'[top][o.name].node = Variable(o.id, o.name)

\* An entry that a step adds to a table, or changes, binds the name to a new
\* Variable or to the Variable the name was bound to before the step.
EntriesKeepIdentity ==
    \A i \in 1..Len(symbol_table_stack') :
        \A n \in DOMAIN symbol_table_stack'[i] :
            LET v == symbol_table_stack'[i][n].node
            IN  \/ /\ i <= Len(symbol_table_stack)
                   /\ SymHas(symbol_table_stack[i], n)
                   /\ symbol_table_stack[i][n].node = v
                \/ v.id > Len(heap)
                \/ /\ Visible(symbol_table_stack, n)
                   /\ InnermostBinding(symbol_table_stack, n) = v

\* a = 1; { a = a + 1; }
ExampleScope ==
    <<"a", " ", "=", " ", "1", ";", " ", "{", " ", "a", " ", "=", " ", "a", " ",
      "+", " ", "1", ";", " ", "}">>

ExampleIsOneVariable ==
    (input = ExampleScope /\ status = "done")
        => /\ Len(occ) = 3
           /\ heap = <<(<<"a">>)>>
           /\ \A i \in 1..3 : occ[i].id = 1 /\ occ[i].name = <<"a">>

\* C2: an occurrence of a name as assignment target, atom or interpolation
\* resolves to the Variable of the innermost open scope that holds the name,
\* creating none; a Variable is created, in the innermost scope, only when no
\* open scope holds the name; a table entry never rebinds a visible name to
\* another Variable; in "a = 1; { a = a + 1; }" all three a are one Variable.
C2_VariableIdentity ==
    /\ [][ResolvesName => ResolvedAsVisible]_vars
    /\ [][status' = "running" => EntriesKeepIdentity]_vars
    /\ []ExampleIsOneVariable

\* An atom resolved, three scopes deep, to a Variable that only the outermost
\* scope holds.
C2_Witness ==
    /\ status = "running"
    /\ occ # <<>>
    /\ Last(occ).where = "atom"
    /\ ~Last(occ).fresh
    /\ Len(symbol_table_stack) >= 3
    /\ \A i \in 2..Len(symbol_table_stack) : ~SymHas(symbol_table_stack[i], Last(occ).name)
    /\ SymHas(symbol_table_stack[1], Last(occ).name)

\* The names bound in some table of the stack, and one that never is.
NoName == <<"n", "o", "n", "e">>

ProbeNames == UNION {DOMAIN symbol_table_stack[i] : i \in 1..Len(symbol_table_stack)}
                  \cup {NoName}

\* C3: lookup(name) leaves the scope stack as it was (same tables, same order,
\* same contents), for every reachable stack and every name: found in the
\* innermost table, deeper, in the outermost, or not at all.
C3_LookupKeepsStack ==
    \A name \in ProbeNames : lookup(symbol_table_stack, name).sts = symbol_table_stack

\* A stack of three or more tables with a name that lookup finds at an
\* intermediate depth, below two tables that do not hold it.
C3_Witness ==
    /\ Len(symbol_table_stack) >= 4
    /\ \E name \in ProbeNames :
          /\ ~SymHas(symbol_table_stack[Len(symbol_table_stack)], name)
          /\ ~SymHas(symbol_table_stack[Len(symbol_table_stack) - 1], name)
          /\ SymHas(symbol_table_stack[Len(symbol_table_stack) - 2], name)
          /\ lookup(symbol_table_stack, name).result # Null

HasPrefix(t, p) == Len(p) <= Len(t) /\ SubSeq(t, 1, Len(p)) = p

HasSuffix(t, p) == Len(p) <= Len(t) /\ SubSeq(t, Len(t) - Len(p) + 1, Len(t)) = p

\* This step declares a parameter.
DeclaresParameter == Len(occ') = Len(occ) + 1 /\ Last(occ').where = "arg"

\* The parameter is a new Variable, the last of the function's parameters, bound
\* in the function's own table, which lies on top of the enclosing scopes.
ParameterIsFresh ==
    LET o == Last(occ')
        top == Len(symbol_table_stack')
    IN  /\ o.id = Len(heap) + 1
        /\ heap' = Append(heap, o.name)
        /\ symbol_table_stack'[top][o.name].node = Variable(o.id, o.name)
        /\ Last(frames').f = "functiondef"
        /\ Last(Last(frames').args) = Variable(o.id, o.name)
        /\ SubSeq(symbol_table_stack', 1, top - 1)
              = IF top = Len(symbol_table_stack) + 1 THEN symbol_table_stack
                ELSE SubSeq(symbol_table_stack, 1, top - 1)

\* The function definitions being parsed that have a parameter of the name.
DefsWithParameter(name) ==
    {k \in 1..Len(frames) : /\ frames[k].f = "functiondef"
                            /\ frames[k].pc \in {"args", "after_body"}
                            /\ \E j \in 1..Len(frames[k].args) : frames[k].args[j].name = name}

\* The parameter Variable that the name denotes in the body of the innermost
\* function definition that declares it (the last parameter of that name).
ParameterOf(name) ==
    LET k == CHOOSE d \in DefsWithParameter(name) : \A e \in DefsWithParameter(name) : e <= d
        as == frames[k].args
        j == CHOOSE i \in 1..Len(as) :
                 as[i].name = name /\ \A h \in (i + 1)..Len(as) : as[h].name # name
    IN  as[j]

ResolvedAsParameter ==
    LET o == Last(occ')
    IN  DefsWithParameter(o.name) # {} => (o.id = ParameterOf(o.name).id /\ heap' = heap)

ParameterIds == {occ[i].id : i \in {j \in 1..Len(occ) : occ[j].where = "arg"}}

\* Outside the definitions that declare it, a name denotes no parameter.
ParametersEndWithDefinition ==
    \A name \in ProbeNames :
        (Visible(symbol_table_stack, name) /\ DefsWithParameter(name) = {})
            => InnermostBinding(symbol_table_stack, name).id \notin ParameterIds

FirstOf(name) == CHOOSE i \in 1..Len(occ) : occ[i].name = name /\ \A j \in 1..(i - 1) : occ[j].name # name

\* The programs that use a outside every block first and, after the last '}',
\* read it again in " b = a;".
OuterAgain ==
    (/\ status = "done"
     /\ \E p \in ScopeStmts : HasPrefix(input, p)
     /\ HasSuffix(input, CloseBrace \o StmtLast))
        => /\ Last(occ).name = <<"a">>
           /\ Last(occ).id = occ[FirstOf(<<"a">>)].id
           /\ Last(occ).id \notin ParameterIds

\* C4: a parameter is a new Variable bound in the function's own scope, also
\* when the name is visible outside; in the function's body the name denotes
\* the parameter (of the innermost definition declaring it, the last of that
\* name), not the outer Variable; once the definition is parsed the name
\* denotes no parameter, and the outer Variable again if there is one.
C4_ParameterShadowing ==
    /\ [][DeclaresParameter => ParameterIsFresh]_vars
    /\ [][ResolvesName => ResolvedAsParameter]_vars
    /\ []ParametersEndWithDefinition
    /\ []OuterAgain

\* In a function body an atom has just been resolved to the parameter, while
\* the outermost scope holds another Variable of the same name.
C4_Witness ==
    /\ status = "running"
    /\ occ # <<>>
    /\ Last(occ).where = "atom"
    /\ DefsWithParameter(Last(occ).name) # {}
    /\ frames[Len(frames)].f # "functiondef"
    /\ ParameterOf(Last(occ).name).id = Last(occ).id
    /\ SymHas(symbol_table_stack[1], Last(occ).name)
    /\ symbol_table_stack[1][Last(occ).name].node.id # Last(occ).id

RECURSIVE Render(_)
\* The source text of an interpolated string: literal fragments as they are,
\* Variables as '$' and the name.
Render(items) ==
    IF items = <<>> THEN <<>>
    ELSE (IF Head(items).kind = "str" THEN Head(items).str
          ELSE <<"$">> \o Head(items).v.name) \o Render(Tail(items))

\* "@(" body ");" with no ')' in the body and a name after every '$'.
IsExternProgram(t) ==
    /\ HasPrefix(t, <<"@", "(">>)
    /\ HasSuffix(t, <<")", ";">>)
    /\ \A i \in 3..(Len(t) - 2) : t[i] # ")" /\ (t[i] = "$" => t[i + 1] \in Letters)

ExternBody(t) == SubSeq(t, 3, Len(t) - 2)

\* C5: the body of an extern call is kept verbatim: the literal fragments and
\* the $name Variables, in source order, spell the text between "@(" and ")",
\* whitespace and newlines included.
C5_ExternBodyVerbatim ==
    (Ended /\ IsExternProgram(input))
        => /\ status = "done"
           /\ Len(MainNodes) = 1
           /\ MainNodes[1].kind = "ExternCall"
           /\ Render(MainNodes[1].body) = ExternBody(input)

RECURSIVE StripComments(_, _)
\* The text without its comments: '#' to the end of the line is dropped.
StripComments(t, inComment) ==
    IF t = <<>> THEN <<>>
    ELSE IF Head(t) = NL THEN <<NL>> \o StripComments(Tail(t), FALSE)
    ELSE IF inComment \/ Head(t) = "#" THEN StripComments(Tail(t), TRUE)
    ELSE <<Head(t)>> \o StripComments(Tail(t), FALSE)

RECURSIVE Count(_, _)
Count(t, c) == IF t = <<>> THEN 0 ELSE (IF Head(t) = c THEN 1 ELSE 0) + Count(Tail(t), c)

\* C6: comments are skipped: a program of "a=1;" statements and comments
\* parses as the program with the comments removed does, to one Assignment per
\* statement, wherever the comments stand.
C6_CommentsSkipped ==
    (/\ Ended
     /\ input \in CommentInputs(MaxItems)
     /\ Count(StripComments(input, FALSE), ";") >= 1)
        => /\ status = "done"
           /\ Len(MainNodes) = Count(StripComments(input, FALSE), ";")
           /\ \A i \in 1..Len(MainNodes) :
                 /\ MainNodes[i].kind = "Assignment"
                 /\ MainNodes[i].variable = Variable(1, <<"a">>)

\* The line of the character at 0-based index i of the parsed text.
LineOf(i) == 1 + Count(SubSeq(text, 1, IF i <= Len(text) THEN i ELSE Len(text)), NL)

\* C7: a parse that fails ends in one way: a syntax error that names the line
\* of the offending token, with no Module returned and nothing consumed after
\* the offending token.
C7_ErrorsNameTheLine ==
    status = "error"
        => /\ result = Null
           /\ err.haspos
           /\ err.pos.idx = idx
           /\ err.pos.line = LineOf(idx)

RECURSIVE EqTokens(_, _)
\* The 1-based positions of the "==" tokens of t, scanned from position i.
EqTokens(t, i) ==
    IF i >= Len(t) THEN {}
    ELSE IF t[i] = "=" /\ t[i + 1] = "=" THEN {i} \cup EqTokens(t, i + 2)
    ELSE EqTokens(t, i + 1)

\* Two "==" with operands and arithmetic between them only (no parenthesis,
\* no ';', no brace), in a text without strings, comments or extern calls
\* before them.
UnparenthesizedChain(t) ==
    \E i, j \in EqTokens(t, 1) :
        /\ i < j
        /\ \A k \in (i + 2)..(j - 1) : t[k] \notin {"(", ")", ";", "{", "}", ","}
        /\ \A k \in 1..j : t[k] \notin {QUOTE, "#", "@"}

\* expr() has returned a Comparison to ifstmt() or factor(), or otherstmt() has
\* received the Assignment of a Comparison, and "==" is the next token.
ComparisonThenEq ==
    /\ status = "running"
    /\ peek(TZ).type = "DoubleEquals"
    /\ \/ /\ ret.kind = "Comparison"
          /\ Last(frames).f = "ifstmt" /\ Last(frames).pc = "after_cond"
       \/ /\ ret.kind = "Comparison"
          /\ Last(frames).f = "factor" /\ Last(frames).pc = "after_expr"
       \/ /\ ret.kind = "Assignment" /\ ret.value.kind = "Comparison"
          /\ Last(frames).f = "otherstmt" /\ Last(frames).pc = "after_call"

\* The parse has stopped with a syntax error at the "==" that follows.
RejectedAtEq ==
    /\ status' = "error"
    /\ err'.haspos
    /\ err'.pos.idx = AfterPeek(TZ).idx
    /\ CharAt(err'.pos.idx) = "=" /\ CharAt(err'.pos.idx + 1) = "="

\* C8: equality does not chain: after "a == b" a further "==" is not absorbed
\* into the expression; the caller of expr() rejects it as a syntax error at
\* that "==", so no text with an unparenthesized "x == y == z" parses, in an
\* assignment, an if condition or a parenthesized factor.
C8_EqualityDoesNotChain ==
    /\ [](UnparenthesizedChain(input) => status # "done")
    /\ [][ComparisonThenEq => RejectedAtEq]_vars

\* The if condition "x == y == z" was rejected at its second "==".
C8_Witness ==
    /\ status = "error"
    /\ UnparenthesizedChain(input)
    /\ Last(frames).f = "ifstmt"
    /\ ret.kind = "Comparison"
    /\ err.haspos
    /\ CharAt(err.pos.idx) = "=" /\ CharAt(err.pos.idx + 1) = "="
    /\ \E i \in EqTokens(text, 1) : i < err.pos.idx + 1

\* C10: next() makes progress: whenever the tokenizer is not at the end of the
\* text, next() leaves the index strictly greater than it found it, whatever
\* character stands there.
C10_NextAdvances ==
    (status = "running" /\ ~eos(idx)) => next(TZ).idx > idx

(***************************************************************************)
(* The reference grammar, by splitting at operators:                       *)
(*   sum     := sum ('+' | '-') product | product                          *)
(*   product := product ('*' | '/') unary | unary                          *)
(*   unary   := '-' factor | factor                                        *)
(*   factor  := '(' sum ')' | number | name                                *)
(***************************************************************************)
Invalid == [kind |-> "Invalid"]

\* The length of the longest prefix of e made of characters of S.
RECURSIVE RunLength(_, _)
RunLength(e, S) ==
    IF e # <<>> /\ Head(e) \in S THEN 1 + RunLength(Tail(e), S) ELSE 0

\* The tokens of e: numbers, names and single characters; blanks separate.
RECURSIVE RefTokens(_)
RefTokens(e) ==
    IF e = <<>> THEN <<>>
    ELSE IF is_whitespace(Head(e)) THEN RefTokens(Tail(e))
    ELSE LET n == IF Head(e) \in Digits THEN RunLength(e, Digits)
                  ELSE IF Head(e) \in Letters THEN RunLength(e, Letters \cup Digits)
                  ELSE 1
         IN  <<SubSeq(e, 1, n)>> \o RefTokens(SubSeq(e, n + 1, Len(e)))

RefIsNumber(tok) == Head(tok) \in Digits

RefIsName(tok) == Head(tok) \in Letters

\* The nesting depth of parentheses in front of token k.
RefDepth(ts, k) ==
    Cardinality({i \in 1..(k - 1) : ts[i] = <<"(">>})
        - Cardinality({i \in 1..(k - 1) : ts[i] = <<")">>})

\* Token k is one of ops, outside every parenthesis, with an operand before it.
RefBinaryAt(ts, k, ops) ==
    /\ k > 1
    /\ ts[k] \in ops
    /\ RefDepth(ts, k) = 0
    /\ \A i \in 1..k : RefDepth(ts, i) >= 0
    /\ RefIsNumber(ts[k - 1]) \/ RefIsName(ts[k - 1]) \/ ts[k - 1] = <<")">>

RefLastBinary(ts, ops) ==
    CHOOSE k \in 1..Len(ts) :
        /\ RefBinaryAt(ts, k, ops)
        /\ \A j \in (k + 1)..Len(ts) : ~RefBinaryAt(ts, j, ops)

RefOperator(tok) ==
    CASE tok = <<"+">> -> "Add"
      [] tok = <<"-">> -> "Sub"
      [] tok = <<"*">> -> "Mul"
      [] tok = <<"/">> -> "Div"

RefBinOp(op, a, b) == IF a = Invalid \/ b = Invalid THEN Invalid ELSE BinOp(op, a, b)

\* The Variable of a name: Variables are numbered in the order in which the
\* names first occur in names.
RefVariable(names, name) ==
    LET first == CHOOSE i \in 1..Len(names) :
                     names[i] = name /\ \A j \in 1..(i - 1) : names[j] # name
    IN  Variable(Cardinality({names[j] : j \in 1..first}), name)

RECURSIVE RefSum(_, _)
RECURSIVE RefProduct(_, _)
RECURSIVE RefUnary(_, _)
RECURSIVE RefFactor(_, _)

RefSum(ts, names) ==
    IF \E k \in 1..Len(ts) : RefBinaryAt(ts, k, {<<"+">>, <<"-">>})
    THEN LET k == RefLastBinary(ts, {<<"+">>, <<"-">>})
         IN  RefBinOp(RefOperator(ts[k]), RefSum(SubSeq(ts, 1, k - 1), names),
                      RefProduct(SubSeq(ts, k + 1, Len(ts)), names))
    ELSE RefProduct(ts, names)

RefProduct(ts, names) ==
    IF \E k \in 1..Len(ts) : RefBinaryAt(ts, k, {<<"*">>, <<"/">>})
    THEN LET k == RefLastBinary(ts, {<<"*">>, <<"/">>})
         IN  RefBinOp(RefOperator(ts[k]), RefProduct(SubSeq(ts, 1, k - 1), names),
                      RefUnary(SubSeq(ts, k + 1, Len(ts)), names))
    ELSE RefUnary(ts, names)

RefUnary(ts, names) ==
    IF ts # <<>> /\ Head(ts) = <<"-">>
    THEN LET f == RefFactor(Tail(ts), names)
         IN  IF f = Invalid THEN Invalid ELSE UnaryOp("Negate", f)
    ELSE RefFactor(ts, names)

RefFactor(ts, names) ==
    IF Len(ts) = 1 /\ RefIsNumber(ts[1]) THEN Integer(ts[1])
    ELSE IF Len(ts) = 1 /\ RefIsName(ts[1]) THEN RefVariable(names, ts[1])
    ELSE IF /\ Len(ts) >= 2
            /\ ts[1] = <<"(">>
            /\ ts[Len(ts)] = <<")">>
            /\ \A k \in 2..Len(ts) : RefDepth(ts, k) >= 1
    THEN RefSum(SubSeq(ts, 2, Len(ts) - 1), names)
    ELSE Invalid

\* The names of a token sequence, in order.
RefNames(ts) == SelectSeq(ts, RefIsName)

\* "x=" e ";" for an expression e over numbers, names, + - * / ( ) and blanks.
IsExprProgram(t) ==
    /\ HasPrefix(t, <<"x", "=">>)
    /\ HasSuffix(t, <<";">>)
    /\ \A i \in 3..(Len(t) - 1) :
          t[i] \in Digits \cup Letters \cup {"+", "-", "*", "/", "(", ")", " "}

\* The tree of the reference grammar for the expression of "x=" e ";".
RefTree(t) ==
    LET ts == RefTokens(SubSeq(t, 3, Len(t) - 1))
    IN  RefSum(ts, <<(<<"x">>)>> \o RefNames(ts))

\* C9: the parser builds, for every arithmetic expression the reference
\* grammar derives, the tree of the reference grammar: '*' and '/' bind tighter
\* than '+' and '-', equal levels group to the left, unary minus applies to one
\* factor, parentheses group; and it rejects what the grammar does not derive.
C9_ReferenceGrammar ==
    (Ended /\ IsExprProgram(input))
        => IF RefTree(input) = Invalid THEN status = "error"
           ELSE /\ status = "done"
                /\ MainNodes = <<Assignment(Variable(1, <<"x">>), RefTree(input))>>

\* 1-1*1 and the like have been parsed: a sum whose right operand is a product.
C9_Witness ==
    /\ status = "done"
    /\ IsExprProgram(input)
    /\ Len(MainNodes) = 1
    /\ MainNodes[1].kind = "Assignment"
    /\ MainNodes[1].value.kind = "BinOp"
    /\ MainNodes[1].value.op = "Sub"
    /\ MainNodes[1].value.b.kind = "BinOp"
    /\ MainNodes[1].value.b.op = "Mul"
    /\ MainNodes[1].value = RefTree(input)

\* The greatest index get_token() reads from tokenizer state tz: curchar()
\* after skip_whitespace(), nextchar() after '=', and the index at which the
\* loops of read_number() and read_symbol() stop.
FarthestRead(tz) ==
    LET i == skip_whitespace(tz.idx, tz.lineno).idx
        c == CharAt(i)
        e1 == DigitsEnd(i)
    IN  IF eos(i) THEN i
        ELSE IF SingleCharType(c) # "None" THEN i
        ELSE IF c = "=" THEN i + 1
        ELSE IF is_digit(c) THEN (IF CharAt(e1) = "." THEN DigitsEnd(e1 + 1) ELSE e1)
        ELSE AlnumEnd(i)

\* C11: the tokenizer stays inside its text: in every state of a parse the
\* index is at most the length of the text, and so is every position that
\* the next token read touches (the terminator at the length may be read).
C11_StaysInsideText ==
    status # "idle" => (idx <= Len(text) /\ FarthestRead(TZ) <= Len(text))

====
